---- MODULE Spec2Model ----
(***************************************************************************)
(* A model of rtfparser.Parser: the byte reader and lexer primitives, the  *)
(* group/property stack, the destinations and the control-word dispatch.   *)
(*                                                                         *)
(* A byte is a one-character string, the empty string is what f.read(1)    *)
(* returns at EOF.  A control word is a TLA+ string.  Text (a Python str   *)
(* that is written to a destination) is a sequence of code points.         *)
(* A Python value that may be None, an int, True or a str is a record      *)
(* [t, n, s] (see NoneV, IntV, TrueV, StrV).                               *)
(* An exception that leaves Parser.parse is status = "error" with the      *)
(* exception's class in err.                                               *)
(***************************************************************************)
EXTENDS Integers, Sequences, FiniteSets, TLC

VARIABLES
  input,        \* the bytes of the file, fixed at Init
  pos,          \* f.tell()
  group,        \* Parser.group: the stack of Group frames, root first; << >> is None
  dests,        \* every Destination object created so far, by identity
  fonts,        \* Parser.fonts
  colors,       \* Parser.colors
  info,         \* Parser.info (the fields that were assigned)
  numbering,    \* Parser.numbering: a destination id, 0 is None
  charset,      \* Parser.charset
  deff,         \* Parser.deff
  rtf_version,  \* Parser.rtf_version
  events,       \* the calls received by the Output, in order
  status,       \* "running", "done" (parse returned) or "error" (parse raised)
  err,          \* the class of the exception raised, "" if none
  hist          \* observation only: what the last loop iteration did

vars == <<input, pos, group, dests, fonts, colors, info, numbering, charset,
          deff, rtf_version, events, status, err, hist>>

----------------------------------------------------------------------------
(* Python values *)

NoneV == [t |-> "None", n |-> 0, s |-> ""]

IntV(n) == [t |-> "int", n |-> n, s |-> ""]

TrueV == [t |-> "bool", n |-> 1, s |-> ""]

StrV(s) == [t |-> "str", n |-> 0, s |-> s]

\* a dict key: True == 1 and hash(True) == hash(1) in Python
Key(v) == IF v.t = "bool" THEN IntV(v.n) ELSE v

\* dict.get(k, default) and dict.pop(k, None) on a map whose domain is its keys
Get(map, k, default) == IF k \in DOMAIN map THEN map[k] ELSE default

Put(map, k, v) == [x \in DOMAIN map \cup {k} |-> IF x = k THEN v ELSE map[x]]

Pop(map, k) == [x \in DOMAIN map \ {k} |-> map[x]]

\* a removal that removes nothing
PopNone(map, ks) == map

PopAll(map, ks) == [x \in DOMAIN map \ ks |-> map[x]]

EmptyMap == [x \in {} |-> NoneV]

----------------------------------------------------------------------------
(* Bytes and characters *)

Lower == <<"a","b","c","d","e","f","g","h","i","j","k","l","m",
           "n","o","p","q","r","s","t","u","v","w","x","y","z">>

Upper == <<"A","B","C","D","E","F","G","H","I","J","K","L","M",
           "N","O","P","Q","R","S","T","U","V","W","X","Y","Z">>

Digit == <<"0","1","2","3","4","5","6","7","8","9">>

\* the remaining ASCII bytes the model's inputs use, with their codes
Punct == <<"\t", "\n", "\r", " ", "\"", "'", "*", "-", ":", ";", "?",
           "\\", "_", "{", "}", "~", "/", ".", "!">>

PunctCode == <<9, 10, 13, 32, 34, 39, 42, 45, 58, 59, 63,
               92, 95, 123, 125, 126, 47, 46, 33>>

Range(seq) == {seq[i] : i \in DOMAIN seq}

IndexOf(seq, x) == CHOOSE i \in DOMAIN seq : seq[i] = x

\* bytes.decode('ascii') of one byte
Ord(c) ==
  IF c \in Range(Lower) THEN 96 + IndexOf(Lower, c)
  ELSE IF c \in Range(Upper) THEN 64 + IndexOf(Upper, c)
  ELSE IF c \in Range(Digit) THEN 47 + IndexOf(Digit, c)
  ELSE PunctCode[IndexOf(Punct, c)]

Decode(bytes) == [i \in DOMAIN bytes |-> Ord(bytes[i])]

RECURSIVE Join(_)
Join(bytes) == IF bytes = << >> THEN "" ELSE Head(bytes) \o Join(Tail(bytes))

META_CHARS == {"\\", "{", "}"}

not_control(c) == c \notin META_CHARS

\* b'a' <= c <= b'z' or b'A' <= c <= b'Z'; b'' is below every byte
is_letter(c) == c \in Range(Lower) \cup Range(Upper)

is_digit(c) == c \in Range(Digit)

is_endline(c) == c = "\r" \/ c = "\n"

\* bytes.isspace(): false for b'' (0x0b, also a space for Python, is not in the inputs)
isspace(c) == c \in {" ", "\t", "\n", "\r", "\f"}

Matches(matcher, c) ==
  CASE matcher = "not_control" -> not_control(c)
    [] matcher = "is_letter"   -> is_letter(c)
    [] matcher = "is_digit"    -> is_digit(c)
    [] matcher = "is_endline"  -> is_endline(c)

----------------------------------------------------------------------------
(* The reader: f.read and f.seek over input, at position p *)

\* the bytes f.read(n) returns at p
Peek(p, n) == SubSeq(input, p + 1, IF p + n > Len(input) THEN Len(input) ELSE p + n)

\* the byte f.read(1) returns at p, "" at EOF
Read1(p) == IF p < Len(input) THEN input[p + 1] ELSE ""

\* the position after f.read(1)
After1(p) == IF p < Len(input) THEN p + 1 ELSE p

\* f.seek(-1, 1)
SeekBack(p) == p - 1

\* In the operators below an intermediate result is bound through a singleton
\* set (CHOOSE r \in {e(x) : x \in {v}} : TRUE is e(v), with v evaluated once),
\* so that TLC evaluates it once also where it evaluates ENABLED.
RECURSIVE read_into_while(_, _, _)
read_into_while(p, buf, matcher) ==
  CHOOSE r \in
    {IF ~Matches(matcher, c) THEN [pos |-> SeekBack(After1(p0)), buf |-> buf0]
     ELSE IF c = "" THEN [pos |-> p0, buf |-> buf0]
     ELSE read_into_while(p0 + 1, Append(buf0, c), matcher) :
       p0 \in {p}, buf0 \in {buf}, c \in {Read1(p)}} : TRUE

read_while(p, matcher) == read_into_while(p, << >>, matcher)

\* the letters read, as bytes; Join of them is the word
read_word(p) == read_while(p, "is_letter")

RECURSIVE DigitsValue(_)
DigitsValue(ds) ==
  CHOOSE v \in
    {IF d = << >> THEN 0
     ELSE 10 * DigitsValue(SubSeq(d, 1, Len(d) - 1)) + (IndexOf(Digit, d[Len(d)]) - 1) :
       d \in {ds}} : TRUE

\* int(buf) of an optional '-' and digits; err when int() raises (buf is b'-')
read_number(p, default) ==
  LET c == Read1(p) IN
  IF is_digit(c) \/ c = "-"
  THEN LET r == read_into_while(After1(p), <<c>>, "is_digit") IN
       IF r.buf = <<"-">>
       THEN [pos |-> r.pos, val |-> NoneV, err |-> "ValueError"]
       ELSE [pos |-> r.pos,
             val |-> IF c = "-" THEN IntV(-DigitsValue(Tail(r.buf)))
                     ELSE IntV(DigitsValue(r.buf)),
             err |-> ""]
  ELSE [pos |-> SeekBack(After1(p)), val |-> default, err |-> ""]

end_control(p) ==
  IF ~isspace(Read1(p)) THEN SeekBack(After1(p)) ELSE After1(p)

\* consume(f, expected): the position after the read, and whether it raises
consume(p, expected) ==
  [pos |-> p + Len(Peek(p, Len(expected))),
   err |-> IF Peek(p, Len(expected)) # expected THEN "ValueError" ELSE ""]

RECURSIVE skip_chars(_, _)

\* the branch c == b'\\' of skip_chars, w being what read_word returned
SkipControl(w, n) ==
  IF w.buf # << >>
  THEN CHOOSE r \in
         {IF num.err # "" THEN [pos |-> num.pos, err |-> num.err]
          ELSE CHOOSE r2 \in {skip_chars(p, n - 1) : p \in {end_control(num.pos)}} : TRUE :
            num \in {read_number(w.pos, NoneV)}} : TRUE
  ELSE IF Read1(w.pos) = "'"
       THEN skip_chars(After1(w.pos) + Len(Peek(After1(w.pos), 2)), n - 1)
       ELSE skip_chars(After1(w.pos), n - 1)

skip_chars(p, n) ==
  IF n <= 0 THEN [pos |-> p, err |-> ""]
  ELSE IF Read1(p) = "\\"
  THEN CHOOSE r \in {SkipControl(w, n) : w \in {read_word(After1(p))}} : TRUE
  ELSE IF Read1(p) = "{" \/ Read1(p) = "}" THEN [pos |-> SeekBack(After1(p)), err |-> ""]
  ELSE skip_chars(After1(p), n - 1)

----------------------------------------------------------------------------
(* The parser state as a record s, and the objects it refers to.           *)
(*   frame (Group):  [own_dest: destination id, 0 for None;  prop: map;    *)
(*                    at_open, dest_at_open: the parent's map and the      *)
(*                    effective destination when the frame was pushed      *)
(*                    (observation only)]                                  *)
(*   destination:    [kind; content: the text collected (FontTable.name,   *)
(*                    TextSetter.content, joined); obj, prop: the target   *)
(*                    of a SetValue; attrs: the object's own fields;       *)
(*                    installs, closes: how often it became a group's      *)
(*                    own_dest and how often close() was called on it      *)
(*                    (observation only)]                                  *)

ROOT == 1          \* the RootDest of Group.root()

OUTPUT == 2        \* Parser.output

NULL_DEVICE == 3   \* the module-level NullDevice

NoTarget == [t |-> "None", id |-> 0]

InfoTarget == [t |-> "info", id |-> 0]

DestTarget(d) == [t |-> "dest", id |-> d]

NewObj(kind, obj, prop, attrs) ==
  [kind |-> kind, content |-> << >>, obj |-> obj, prop |-> prop, attrs |-> attrs,
   installs |-> 0, closes |-> 0]

Ev(name, text, url, num) == [ev |-> name, text |-> text, url |-> url, num |-> num]

Raise(s, e) == [s EXCEPT !.status = "error", !.err = e]

Emit(s, e) == [s EXCEPT !.events = Append(@, e)]

Top(s) == s.group[Len(s.group)]

\* Parser.prop; only where s.group is not None
Prop(s) == Top(s).prop

\* as if Group.open shared the parent's dict instead of copying it
SetPropsShared(s, m) == [s EXCEPT !.group = [i \in DOMAIN @ |-> [@[i] EXCEPT !.prop = m]]]

\* an assignment to, or pop from, Parser.prop: the current group's map becomes m
SetProps(s, m) == [s EXCEPT !.group[Len(s.group)].prop = m]

\* Group.root()
GroupRoot == <<[own_dest |-> ROOT, prop |-> EmptyMap, at_open |-> EmptyMap, dest_at_open |-> 0]>>

\* Group.dest: own_dest or parent.dest, 0 when the chain ends without one
RECURSIVE GroupDest(_)
GroupDest(g) ==
  IF g = << >> THEN 0
  ELSE IF g[Len(g)].own_dest # 0 THEN g[Len(g)].own_dest
  ELSE GroupDest(SubSeq(g, 1, Len(g) - 1))

\* Group.open(): the child has a copy of the parent's map and no destination
GroupOpen(g) ==
  Append(g, [own_dest |-> 0, prop |-> g[Len(g)].prop,
             at_open |-> g[Len(g)].prop, dest_at_open |-> GroupDest(g)])

\* Parser.dest: 0 when evaluating it raises AttributeError
Dest(s) == GroupDest(s.group)

\* Parser.dest = d
SetDest(s, d) ==
  IF s.group = << >> THEN Raise(s, "AttributeError")
  ELSE [s EXCEPT !.group[Len(s.group)].own_dest = d, !.dests[d].installs = @ + 1]

\* a new destination object; its id is Len(dests) + 1
Alloc(s, obj) == [s EXCEPT !.dests = Append(@, obj)]

----------------------------------------------------------------------------
(* Destinations *)

SEMICOLON == 59

\* FontTable.write
FontTableWrite(s, d, text) ==
  LET name == s.dests[d].content \o text IN
  IF text[Len(text)] # SEMICOLON
  THEN [s EXCEPT !.dests[d].content = name]
  ELSE IF "family" \notin DOMAIN Prop(s) \/ "f" \notin DOMAIN Prop(s)
  THEN Raise(s, "KeyError")
  ELSE [s EXCEPT !.dests[d].content = << >>,
                 !.fonts = Put(@, Key(Prop(s)["f"]),
                               [name |-> SubSeq(name, 1, Len(name) - 1),
                                family |-> Prop(s)["family"],
                                charset |-> Get(Prop(s), "fcharset", NoneV)])]

\* ColorTable.write
ColorTableWrite(s, text) ==
  [s EXCEPT !.colors = Append(@, [red |-> Get(Prop(s), "red", IntV(0)),
                                  green |-> Get(Prop(s), "green", IntV(0)),
                                  blue |-> Get(Prop(s), "blue", IntV(0))])]

\* self.dest.write(text)
Write(s, text) ==
  LET d == Dest(s) IN
  IF d = 0 THEN Raise(s, "AttributeError")
  ELSE LET kind == s.dests[d].kind IN
    CASE kind = "RootDest"   -> IF text # <<0>> THEN Raise(s, "ValueError") ELSE s
      [] kind = "Output"     -> Emit(s, Ev("write", text, << >>, 0))
      [] kind = "NullDevice" -> s
      [] kind = "PlainText"  -> Emit(s, Ev("plain_text", text, << >>, 0))
      [] kind = "FontTable"  -> FontTableWrite(s, d, text)
      [] kind = "ColorTable" -> ColorTableWrite(s, text)
      [] kind = "TextSetter" -> [s EXCEPT !.dests[d].content = @ \o text]
      [] OTHER               -> Raise(s, "ValueError")

\* self.dest.par()
Par(s) ==
  LET d == Dest(s) IN
  IF d = 0 THEN Raise(s, "AttributeError")
  ELSE IF s.dests[d].kind = "Output" THEN Emit(s, Ev("par", << >>, << >>, 0))
  ELSE Raise(s, "ValueError")

\* self.dest.page_break()
PageBreak(s) ==
  LET d == Dest(s) IN
  IF d = 0 THEN Raise(s, "AttributeError")
  ELSE IF s.dests[d].kind = "Output" THEN Emit(s, Ev("page_break", << >>, << >>, 0))
  ELSE Raise(s, "ValueError")

\* the code points str.split() and str.isspace() take for whitespace
Whitespace == {9, 10, 11, 12, 13, 28, 29, 30, 31, 32, 133, 160, 5760, 8232, 8233, 8239, 8287, 12288}
                \cup (8192 .. 8202)

\* str.split(): the maximal runs of non-whitespace
RECURSIVE Split(_)
Split(text) ==
  IF text = << >> THEN << >>
  ELSE IF text[1] \in Whitespace THEN Split(Tail(text))
  ELSE LET n == CHOOSE k \in 1 .. Len(text) :
                  /\ \A i \in 1 .. k : text[i] \notin Whitespace
                  /\ (k = Len(text) \/ text[k + 1] \in Whitespace)
       IN <<SubSeq(text, 1, n)>> \o Split(SubSeq(text, n + 1, Len(text)))

HYPERLINK == <<72, 89, 80, 69, 82, 76, 73, 78, 75>>

QUOTE == 34

removeprefix(text, c) == IF text # << >> /\ text[1] = c THEN Tail(text) ELSE text

\* a removesuffix that removes nothing
removesuffixKeep(text, c) == text

removesuffix(text, c) ==
  IF text # << >> /\ text[Len(text)] = c THEN SubSeq(text, 1, Len(text) - 1) ELSE text

\* Field.close
FieldClose(s, d) ==
  LET words == Split(s.dests[d].attrs["instruction"]) IN
  IF words = << >> THEN Raise(s, "ValueError")
  ELSE IF words[1] = HYPERLINK
  THEN IF Len(words) < 2 THEN Raise(s, "IndexError")
       ELSE Emit(s, Ev("hyperlink", s.dests[d].attrs["result"],
                       removesuffix(removeprefix(words[2], QUOTE), QUOTE), 0))
  ELSE Raise(s, "ValueError")

\* SetValue.close with the value get_value() returned
SetValueClose(s, d, value) ==
  LET target == s.dests[d].obj
      name == s.dests[d].prop
  IN
  CASE target.t = "info" -> [s EXCEPT !.info = Put(@, name, value)]
    [] target.t = "dest" -> [s EXCEPT !.dests[target.id].attrs = Put(@, name, value)]
    [] OTHER             -> Raise(s, "AttributeError")

IsLeap(y) == y % 4 = 0 /\ (y % 100 # 0 \/ y % 400 = 0)

DaysIn(y, m) ==
  IF m = 2 THEN (IF IsLeap(y) THEN 29 ELSE 28)
  ELSE IF m \in {4, 6, 9, 11} THEN 30 ELSE 31

\* TimeSetter.get_value and close: datetime(yr, mo, dy, hr, min, sec)
TimeSetterClose(s, d) ==
  LET p == Prop(s)
      yr == p["yr"].n
      mo == p["mo"].n
      dy == p["dy"].n
      hr == Get(p, "hr", IntV(0)).n
      mi == Get(p, "min", IntV(0)).n
      se == Get(p, "sec", IntV(0)).n
  IN
  IF {"yr", "mo", "dy"} \ DOMAIN p # {} THEN Raise(s, "KeyError")
  ELSE IF ~(/\ yr \in 1 .. 9999 /\ mo \in 1 .. 12 /\ dy \in 1 .. DaysIn(yr, mo)
            /\ hr \in 0 .. 23 /\ mi \in 0 .. 59 /\ se \in 0 .. 59)
  THEN Raise(s, "ValueError")
  ELSE SetValueClose(s, d, <<yr, mo, dy, hr, mi, se>>)

\* d.close(), for the destination d
Close(s, d) ==
  LET kind == s.dests[d].kind
      s1 == [s EXCEPT !.dests[d].closes = @ + 1]
  IN
  CASE kind = "Numbering"  -> Emit(s1, Ev("numbering_on", << >>, << >>, d))
    [] kind = "Field"      -> FieldClose(s1, d)
    [] kind = "TextSetter" -> SetValueClose(s1, d, s1.dests[d].content)
    [] kind = "TimeSetter" -> TimeSetterClose(s1, d)
    [] OTHER               -> s1

\* self.group = self.group.close()
GroupClose(s) ==
  IF s.group = << >> THEN Raise(s, "AttributeError")
  ELSE LET s1 == IF Top(s).own_dest # 0 THEN Close(s, Top(s).own_dest) ELSE s IN
       IF s1.status = "error" THEN s1
       ELSE [s1 EXCEPT !.group = SubSeq(@, 1, Len(@) - 1)]

----------------------------------------------------------------------------
(* Codecs: bytes([b]).decode(encoding) *)

\* what each codec of the Python standard library makes of the bytes 0xE9 and
\* 0x80 (the two bytes above 0x7F that the inputs escape); 0 is UnicodeDecodeError
CODEC_E9 ==
  [cp437 |-> 920, cp850 |-> 218, macintosh |-> 200, cp932 |-> 0, cp949 |-> 0,
   johab |-> 0, gb2312 |-> 0, big5 |-> 0, cp1250 |-> 233, cp1251 |-> 1081,
   cp1252 |-> 233, cp1253 |-> 953, cp1254 |-> 233, cp1255 |-> 1497, cp1256 |-> 233,
   cp1257 |-> 233, cp1258 |-> 233, cp874 |-> 3657]

CODEC_80 ==
  [cp437 |-> 199, cp850 |-> 199, macintosh |-> 196, cp932 |-> 128, cp949 |-> 0,
   johab |-> 0, gb2312 |-> 0, big5 |-> 0, cp1250 |-> 8364, cp1251 |-> 1026,
   cp1252 |-> 8364, cp1253 |-> 8364, cp1254 |-> 8364, cp1255 |-> 8364, cp1256 |-> 8364,
   cp1257 |-> 8364, cp1258 |-> 8364, cp874 |-> 8364]

\* 'ansi' and 'oem' are codecs on Windows only (the process code page, host);
\* elsewhere, host = "", looking them up raises LookupError
HostCodec(encoding, host) == IF encoding.s \in {"ansi", "oem"} THEN host ELSE encoding.s

DecodeByte(encoding, b, host) ==
  LET codec == HostCodec(encoding, host) IN
  IF encoding.t # "str" THEN [err |-> "TypeError", ch |-> 0]
  ELSE IF codec \notin DOMAIN CODEC_E9 THEN [err |-> "LookupError", ch |-> 0]
  ELSE LET ch == IF b < 128 THEN b ELSE IF b = 233 THEN CODEC_E9[codec] ELSE CODEC_80[codec] IN
       IF b >= 128 /\ ch = 0 THEN [err |-> "UnicodeDecodeError", ch |-> 0]
       ELSE [err |-> "", ch |-> ch]

\* rtfcharset.CHARSETS
CHARSET_TABLE ==
  (0 :> StrV("ansi")) @@ (1 :> NoneV) @@ (2 :> StrV("ansi")) @@ (77 :> StrV("macintosh")) @@
  (128 :> StrV("cp932")) @@ (129 :> StrV("cp949")) @@ (130 :> StrV("johab")) @@
  (134 :> StrV("gb2312")) @@ (136 :> StrV("big5")) @@ (161 :> StrV("cp1253")) @@
  (162 :> StrV("cp1254")) @@ (163 :> StrV("cp1258")) @@ (177 :> StrV("cp1255")) @@
  (178 :> StrV("cp1256")) @@ (186 :> StrV("cp1257")) @@ (204 :> StrV("cp1251")) @@
  (222 :> StrV("cp874")) @@ (238 :> StrV("cp1250")) @@ (254 :> StrV("cp437")) @@
  (255 :> StrV("oem"))

\* rtfcharset.get_encoding(charset, default)
get_encoding(fcharset, default) ==
  IF fcharset.t = "None" \/ (fcharset.t \in {"int", "bool"} /\ fcharset.n = 1)
  THEN [err |-> "", enc |-> default]
  ELSE IF fcharset.t \in {"int", "bool"} /\ fcharset.n \in DOMAIN CHARSET_TABLE
  THEN [err |-> "", enc |-> CHARSET_TABLE[fcharset.n]]
  ELSE [err |-> "KeyError", enc |-> NoneV]

HexDigits == <<"0","1","2","3","4","5","6","7","8","9","a","b","c","d","e","f">>

HexUpper == <<"0","1","2","3","4","5","6","7","8","9","A","B","C","D","E","F">>

IsHex(c) == c \in Range(HexDigits) \cup Range(HexUpper)

HexVal(c) == IF c \in Range(HexDigits) THEN IndexOf(HexDigits, c) - 1 ELSE IndexOf(HexUpper, c) - 1

\* int(bs, 16) of the at most two bytes bs, -1 when int() raises or bytes([..]) would
HexValue(bs) ==
  IF Len(bs) = 2 /\ IsHex(bs[1]) /\ IsHex(bs[2]) THEN 16 * HexVal(bs[1]) + HexVal(bs[2])
  ELSE IF Len(bs) = 1 /\ IsHex(bs[1]) THEN HexVal(bs[1])
  ELSE IF Len(bs) = 2 /\ IsHex(bs[1]) /\ isspace(bs[2]) THEN HexVal(bs[1])
  ELSE IF Len(bs) = 2 /\ (isspace(bs[1]) \/ bs[1] = "+") /\ IsHex(bs[2]) THEN HexVal(bs[2])
  ELSE IF bs = <<"-", "0">> THEN 0
  ELSE -1

----------------------------------------------------------------------------
(* Control words *)

PARFMT == {"s", "hyphpar", "intbl", "keep", "nowidctlpar", "widctlpar",
           "keepn", "level", "noline", "outlinelevel", "pagebb", "sbys",
           "q", "fi", "li", "ri", "sb", "sa", "sl", "slmult", "subdocument",
           "rtlpar", "ltrpar"}

TOGGLE == {"b", "caps", "deleted", "i", "outl", "scaps", "shad", "strike", "ul", "v"}

CHRFMT == {"animtext", "charscalex", "dn", "embo", "impr", "sub", "expnd", "expndtw",
           "kerning", "f", "fs", "strikedl", "up", "super", "cf", "cb", "rtlch",
           "ltrch", "cs", "cchs", "lang"} \cup TOGGLE

CHARSETS == [ansi |-> "ansi", pc |-> "cp437", pca |-> "cp850", mac |-> "macintosh"]

FONT_FAMILIES == {"fnil", "froman", "fswiss", "fmodern", "fscript", "fdecor", "ftech", "fbidi"}

TEXT_INFO == {"title", "subject", "author", "manager", "company", "operator",
              "category", "keywords", "comment", "doccomm", "hlinkbase"}

DATE_INFO == {"creatim", "revtim", "printim", "buptim"}

NUMBERING_STYLES == {"pncard", "pndec", "pnucltr", "pnucrm", "pnlcltr", "pnlcrm", "pnord", "pnordt"}

ESCAPE == [line |-> 10, tab |-> 9, emdash |-> 8212, endash |-> 45, lquote |-> 8216,
           rquote |-> 8217, ldblquote |-> 8220, rdblquote |-> 8221, bullet |-> 8226]

SPECIAL == ("~" :> 160) @@ ("-" :> 173) @@ ("_" :> 8209)

IGNORE_WORDS == {"nouicompat", "viewkind"}

UNSUPPORTED_DEST == {"filetbl", "stylesheet", "listtables", "revtbl"}

\* the methods of Parser named '_' + word, by the parameters they take
INSTR_NOARG == {"fonttbl", "colortbl", "par", "page", "ql", "ulnone", "nosupersub",
                "nowidctlpar", "pard", "plain", "pntext", "info", "pn", "pnlvlbody",
                "pnlvlblt", "pntxtb", "pntxta", "result", "field", "fldinst", "fldrslt"}

INSTR_ONEARG == {"ansicpg", "deff", "pnf", "pnstart", "pnindent", "pnlvl", "bin"}

INSTR_OPTARG == {"rtf"}

INSTRUCTIONS == INSTR_NOARG \cup INSTR_ONEARG \cup INSTR_OPTARG

\* Parser.toggle
toggle(s, word, param) ==
  IF param.t = "int" /\ param.n = 0 THEN SetProps(s, Pop(Prop(s), word))
  ELSE SetProps(s, Put(Prop(s), word, TrueV))

\* a reset that pops nothing
resetNothing(s, properties) == s

\* Parser.reset
reset(s, properties) == SetProps(s, PopAll(Prop(s), properties))

\* setattr(self.numbering, name, value)
SetNumbering(s, name, value) ==
  IF s.numbering = 0 THEN Raise(s, "AttributeError")
  ELSE [s EXCEPT !.dests[s.numbering].attrs[name] = value]

NumberingAttrs ==
  [prop |-> EmptyMap, style |-> NoneV, level |-> IntV(0), before |-> << >>, after |-> << >>,
   font_index |-> NoneV, indent |-> IntV(0), start |-> IntV(1)]

\* the Field and its two TextSetters, at ids n, n + 1, n + 2
NewField(s) ==
  LET n == Len(s.dests) + 1 IN
  Alloc(Alloc(Alloc(s,
    NewObj("Field", NoTarget, "",
           [instruction |-> << >>, result |-> << >>, set_instruction |-> n + 1, set_result |-> n + 2])),
    NewObj("TextSetter", DestTarget(n), "instruction", << >>)),
    NewObj("TextSetter", DestTarget(n), "result", << >>))

\* self.dest = self.dest.<attr>, attr one of set_instruction, set_result
SetFieldDest(s, attr) ==
  IF Dest(s) = 0 THEN Raise(s, "AttributeError")
  ELSE IF s.dests[Dest(s)].kind # "Field" THEN Raise(s, "AttributeError")
  ELSE SetDest(s, s.dests[Dest(s)].attrs[attr])

\* the call instr() or instr(param) of the method '_' + word; has: param is not None
Instruction(s, word, param, has) ==
  LET n == Len(s.dests) + 1
      grp == s.group # << >>
  IN
  IF (word \in INSTR_NOARG /\ has) \/ (word \in INSTR_ONEARG /\ ~has) THEN Raise(s, "TypeError")
  ELSE
  CASE word = "rtf" ->
         LET s1 == SetDest(s, OUTPUT) IN
         IF s1.status = "error" THEN s1
         ELSE [s1 EXCEPT !.rtf_version = IF has THEN param.n ELSE 1]
    [] word = "ansicpg" -> [s EXCEPT !.charset = StrV("cp" \o ToString(param.n))]
    [] word = "deff" -> [s EXCEPT !.deff = param]
    [] word = "fonttbl" -> SetDest(Alloc(s, NewObj("FontTable", NoTarget, "", << >>)), n)
    [] word = "colortbl" -> SetDest(Alloc(s, NewObj("ColorTable", NoTarget, "", << >>)), n)
    [] word = "par" -> Par(s)
    [] word = "page" -> PageBreak(s)
    [] word = "ql" -> IF grp THEN SetProps(s, Pop(Prop(s), "q")) ELSE Raise(s, "AttributeError")
    [] word = "ulnone" -> IF grp THEN SetProps(s, Pop(Prop(s), "ul")) ELSE Raise(s, "AttributeError")
    [] word = "nosupersub" ->
         IF grp THEN SetProps(s, PopAll(Prop(s), {"super", "sub"})) ELSE Raise(s, "AttributeError")
    [] word = "nowidctlpar" ->
         IF grp THEN SetProps(s, Pop(Prop(s), "widctlpar")) ELSE Raise(s, "AttributeError")
    [] word = "pard" ->
         IF ~grp THEN Raise(s, "AttributeError")
         ELSE LET s1 == reset(s, PARFMT) IN
              IF s1.numbering # 0
              THEN [Emit(s1, Ev("numbering_off", << >>, << >>, s1.numbering)) EXCEPT !.numbering = 0]
              ELSE s1
    [] word = "plain" ->
         IF ~grp THEN Raise(s, "AttributeError")
         ELSE LET s1 == reset(s, CHRFMT) IN SetProps(s1, Put(Prop(s1), "f", s1.deff))
    [] word = "pntext" -> SetDest(Alloc(s, NewObj("PlainText", DestTarget(OUTPUT), "", << >>)), n)
    [] word = "info" -> s
    [] word = "pn" ->
         SetDest([Alloc(s, NewObj("Numbering", NoTarget, "", NumberingAttrs)) EXCEPT !.numbering = n], n)
    [] word = "pnf" -> SetNumbering(s, "font_index", param)
    [] word = "pnstart" -> SetNumbering(s, "start", param)
    [] word = "pnindent" -> SetNumbering(s, "indent", param)
    [] word = "pnlvl" -> SetNumbering(s, "level", param)
    [] word = "pnlvlbody" -> SetNumbering(s, "level", IntV(10))
    [] word = "pnlvlblt" -> SetNumbering(s, "level", IntV(11))
    [] word = "pntxtb" ->
         SetDest(Alloc(s, NewObj("TextSetter",
                   IF s.numbering = 0 THEN NoTarget ELSE DestTarget(s.numbering), "before", << >>)), n)
    [] word = "pntxta" ->
         SetDest(Alloc(s, NewObj("TextSetter",
                   IF s.numbering = 0 THEN NoTarget ELSE DestTarget(s.numbering), "after", << >>)), n)
    [] word = "bin" -> s
    [] word = "result" -> SetDest(s, NULL_DEVICE)
    [] word = "field" -> SetDest(NewField(s), n)
    [] word = "fldinst" -> SetFieldDest(s, "set_instruction")
    [] word = "fldrslt" -> SetFieldDest(s, "set_result")

\* Parser.handle_control(word, param); w is the word's letters
handle_control(s, w, param) ==
  LET word == Join(w)
      value == IF param.t = "None" THEN TrueV ELSE param
      grp == s.group # << >>
      n == Len(s.dests) + 1
  IN
  IF word \in INSTRUCTIONS THEN Instruction(s, word, param, param.t # "None")
  ELSE IF word \in TOGGLE THEN
    IF grp THEN toggle(s, word, value) ELSE Raise(s, "AttributeError")
  ELSE IF w[1] = "q" THEN
    IF grp THEN SetProps(s, Put(Prop(s), "q", StrV(Join(Tail(w))))) ELSE Raise(s, "AttributeError")
  ELSE IF Len(w) >= 2 /\ w[1] = "u" /\ w[2] = "l" THEN
    IF grp THEN SetProps(s, Put(Prop(s), "ul", IF Len(w) = 2 THEN TrueV ELSE StrV(Join(Tail(Tail(w))))))
    ELSE Raise(s, "AttributeError")
  ELSE IF word \in NUMBERING_STYLES THEN SetNumbering(s, "style", StrV(word))
  ELSE IF Len(w) >= 2 /\ w[1] = "p" /\ w[2] = "n" THEN
    IF s.numbering = 0 THEN Raise(s, "AttributeError")
    ELSE [s EXCEPT !.dests[s.numbering].attrs["prop"] = Put(@, Join(Tail(Tail(w))), value)]
  ELSE IF word \in UNSUPPORTED_DEST THEN SetDest(s, NULL_DEVICE)
  ELSE IF word \in DOMAIN CHARSETS THEN [s EXCEPT !.charset = StrV(CHARSETS[word])]
  ELSE IF word \in FONT_FAMILIES THEN
    IF grp THEN SetProps(s, Put(Prop(s), "family", StrV(Join(Tail(w))))) ELSE Raise(s, "AttributeError")
  ELSE IF word \in TEXT_INFO THEN SetDest(Alloc(s, NewObj("TextSetter", InfoTarget, word, << >>)), n)
  ELSE IF word \in DATE_INFO THEN SetDest(Alloc(s, NewObj("TimeSetter", InfoTarget, word, << >>)), n)
  ELSE IF word \notin IGNORE_WORDS THEN
    IF grp THEN SetProps(s, Put(Prop(s), word, value)) ELSE Raise(s, "AttributeError")
  ELSE s

----------------------------------------------------------------------------
(* Parser.read_control and what it calls; s.pos is the reader's position *)

At(s, p) == [s EXCEPT !.pos = p]

\* self.prop.get('uc', 1), as the number of iterations of range()
Uc(s) == Get(Prop(s), "uc", IntV(1)).n

\* Parser.skip_replacement
skip_replacement(s) ==
  IF s.group = << >> THEN Raise(s, "AttributeError")
  ELSE IF skip_chars(s.pos, Uc(s)).err # ""
  THEN Raise(At(s, skip_chars(s.pos, Uc(s)).pos), skip_chars(s.pos, Uc(s)).err)
  ELSE At(s, skip_chars(s.pos, Uc(s)).pos)

INT16 == (-32768) .. 32767

HIGH_SURROGATES == 55296 .. 56319   \* 0xD800 <= unsigned < 0xDC00

LOW_SURROGATES == 56320 .. 57343    \* what utf-16 accepts as the second unit

MAX_CODE_POINT == 1114111

\* struct.pack('hh', param, low).decode('utf-16le'), for param a high surrogate
DecodePair(param, low) ==
  IF low.t = "None" \/ param.n \notin INT16 \/ low.n \notin INT16
  THEN [err |-> "struct.error", ch |-> 0]
  ELSE IF (low.n % 65536) \notin LOW_SURROGATES
  THEN [err |-> "UnicodeDecodeError", ch |-> 0]
  ELSE [err |-> "",
        ch |-> 65536 + ((param.n % 65536) - 55296) * 1024 + ((low.n % 65536) - 56320)]

\* self.dest.write(text) and then self.skip_replacement(), the last two steps of
\* read_unicode; the write changes neither the reader nor the property map
WriteThenSkip(s, text) ==
  IF Write(s, text).status = "error" THEN Write(s, text)
  ELSE IF skip_chars(s.pos, Uc(s)).err # ""
  THEN Raise(At(Write(s, text), skip_chars(s.pos, Uc(s)).pos), skip_chars(s.pos, Uc(s)).err)
  ELSE At(Write(s, text), skip_chars(s.pos, Uc(s)).pos)

\* the high-surrogate branch of read_unicode
ReadSurrogate(s, param) ==
  IF s.group = << >> THEN Raise(s, "AttributeError")
  ELSE CHOOSE r \in
    {IF skip.err # "" THEN Raise(At(s, skip.pos), skip.err)
     ELSE CHOOSE r2 \in
       {IF c.err # "" THEN Raise(At(s, c.pos), c.err)
        ELSE CHOOSE r3 \in
          {IF low.err # "" THEN Raise(At(s, low.pos), low.err)
           ELSE CHOOSE r4 \in
             {IF ch.err # "" THEN Raise(s1, ch.err) ELSE WriteThenSkip(s1, <<ch.ch>>) :
                ch \in {DecodePair(param, low.val)},
                s1 \in {At(s, end_control(low.pos))}} : TRUE :
             low \in {read_number(c.pos, NoneV)}} : TRUE :
          c \in {consume(skip.pos, <<"\\", "u">>)}} : TRUE :
       skip \in {skip_chars(s.pos, Uc(s))}} : TRUE

\* a conversion that leaves negative parameters as they are
UnsignedAsRead(param) == param.n

\* param if param >= 0 else param + 0x10000
Unsigned(param) == IF param.n >= 0 THEN param.n ELSE param.n + 65536

\* Parser.read_unicode(f, param)
read_unicode(s, param) ==
  IF param.t = "None" THEN Raise(s, "TypeError")
  ELSE IF Unsigned(param) \in HIGH_SURROGATES THEN ReadSurrogate(s, param)
  ELSE IF s.group = << >> THEN Raise(s, "AttributeError")
  ELSE IF Unsigned(param) \notin 0 .. MAX_CODE_POINT THEN Raise(s, "ValueError")
  ELSE WriteThenSkip(s, <<Unsigned(param)>>)

\* Parser.current_font: the key looked up in Parser.fonts
FontKey(s) == Key(Get(Prop(s), "f", s.deff))

\* the branch c == b"'" of read_control; s.pos is after the quote
HexEscape(s, host) ==
  IF s.group = << >> THEN Raise(s, "AttributeError")
  ELSE IF FontKey(s) \notin DOMAIN s.fonts THEN Raise(s, "KeyError")
  ELSE LET e == get_encoding(s.fonts[FontKey(s)].charset, s.charset)
           bs == Peek(s.pos, 2)
           s1 == At(s, s.pos + Len(bs))
       IN
       IF e.err # "" THEN Raise(s, e.err)
       ELSE IF HexValue(bs) < 0 THEN Raise(s1, "ValueError")
       ELSE LET ch == DecodeByte(e.enc, HexValue(bs), host) IN
            IF ch.err # "" THEN Raise(s1, ch.err) ELSE Write(s1, <<ch.ch>>)

\* Parser.try_read_dest
try_read_dest(s) ==
  LET c == consume(read_while(s.pos, "is_endline").pos, <<"\\">>) IN
  IF c.err # "" THEN Raise(At(s, c.pos), c.err)
  ELSE LET w == read_word(c.pos) IN
       IF Join(w.buf) \in INSTRUCTIONS THEN Instruction(At(s, w.pos), Join(w.buf), NoneV, FALSE)
       ELSE SetDest(At(s, w.pos), NULL_DEVICE)

\* Parser.read_control; s.pos is after the backslash
read_control(s, host) ==
  CHOOSE r \in
    {IF w.buf # << >>
     THEN IF Join(w.buf) \in DOMAIN ESCAPE
          THEN Write(At(s0, end_control(w.pos)), <<ESCAPE[Join(w.buf)]>>)
          ELSE CHOOSE r2 \in
                 {IF param.err # "" THEN Raise(At(s0, param.pos), param.err)
                  ELSE CHOOSE r3 \in
                         {IF Join(w.buf) = "u" THEN read_unicode(s1, param.val)
                          ELSE handle_control(s1, w.buf, param.val) :
                            s1 \in {At(s0, end_control(param.pos))}} : TRUE :
                    param \in {read_number(w.pos, NoneV)}} : TRUE
     ELSE CHOOSE r2 \in
            {IF c = "'" THEN HexEscape(s1, host)
             ELSE IF c \in META_CHARS THEN Write(s1, <<Ord(c)>>)
             ELSE IF c \in DOMAIN SPECIAL THEN Write(s1, <<SPECIAL[c]>>)
             ELSE IF is_endline(c) THEN Par(s1)
             ELSE IF c = "*" THEN try_read_dest(s1)
             ELSE Raise(s1, "ValueError") :
               c \in {Read1(w.pos)}, s1 \in {At(s0, After1(w.pos))}} : TRUE :
       s0 \in {s}, w \in {read_word(s.pos)}} : TRUE

----------------------------------------------------------------------------
(* Parser.parse: one iteration of its loop *)

\* read_while(f, not_control).translate(None, b'\r\n').decode(ASCII)
TextRun(p) ==
  LET r == read_while(p, "not_control") IN
  [pos |-> r.pos, text |-> Decode(SelectSeq(r.buf, LAMBDA c : ~is_endline(c)))]

\* the text run and its write
WriteRun(s) ==
  IF TextRun(s.pos).text # << >> THEN Write(At(s, TextRun(s.pos).pos), TextRun(s.pos).text)
  ELSE At(s, TextRun(s.pos).pos)

\* the byte the iteration dispatches on, "" at EOF
Dispatch(s) == Read1(TextRun(s.pos).pos)

\* as if the EOF branch of Parser.parse had no break
AfterRunNoBreak(s1, host) ==
  LET c == Read1(s1.pos) IN
  IF s1.status = "error" THEN s1
  ELSE IF c = "\\" THEN read_control(At(s1, After1(s1.pos)), host)
  ELSE IF c = "{" THEN
    IF s1.group = << >> THEN Raise(At(s1, After1(s1.pos)), "AttributeError")
    ELSE [s1 EXCEPT !.pos = After1(s1.pos), !.group = GroupOpen(@)]
  ELSE IF c = "}" THEN GroupClose(At(s1, After1(s1.pos)))
  ELSE IF c = "" THEN Emit(s1, Ev("end_doc", << >>, << >>, 0))
  ELSE Raise(At(s1, After1(s1.pos)), "ValueError")

\* as if the EOF branch of Parser.parse did nothing and went on with the loop
AfterRunIdle(s1, host) ==
  LET c == Read1(s1.pos) IN
  IF s1.status = "error" THEN s1
  ELSE IF c = "\\" THEN read_control(At(s1, After1(s1.pos)), host)
  ELSE IF c = "{" THEN
    IF s1.group = << >> THEN Raise(At(s1, After1(s1.pos)), "AttributeError")
    ELSE [s1 EXCEPT !.pos = After1(s1.pos), !.group = GroupOpen(@)]
  ELSE IF c = "}" THEN GroupClose(At(s1, After1(s1.pos)))
  ELSE IF c = "" THEN s1
  ELSE Raise(At(s1, After1(s1.pos)), "ValueError")

\* the rest of the iteration, from the state s1 after the text run: c = f.read(1)
\* and its branches
AfterRun(s1, host) ==
  LET c == Read1(s1.pos) IN
  IF s1.status = "error" THEN s1
  ELSE IF c = "\\" THEN read_control(At(s1, After1(s1.pos)), host)
  ELSE IF c = "{" THEN
    IF s1.group = << >> THEN Raise(At(s1, After1(s1.pos)), "AttributeError")
    ELSE [s1 EXCEPT !.pos = After1(s1.pos), !.group = GroupOpen(@)]
  ELSE IF c = "}" THEN GroupClose(At(s1, After1(s1.pos)))
  ELSE IF c = "" THEN [Emit(s1, Ev("end_doc", << >>, << >>, 0)) EXCEPT !.status = "done"]
  ELSE Raise(At(s1, After1(s1.pos)), "ValueError")

----------------------------------------------------------------------------
(* The state machine *)

\* the parser's fields as the record the operators above work on
St ==
  [pos |-> pos, group |-> group, dests |-> dests, fonts |-> fonts, colors |-> colors,
   info |-> info, numbering |-> numbering, charset |-> charset, deff |-> deff,
   rtf_version |-> rtf_version, events |-> events, status |-> status, err |-> err]

NoFrame == [own_dest |-> 0, prop |-> EmptyMap, at_open |-> EmptyMap, dest_at_open |-> 0]

\* what the iteration from s did, s1 being the state after its text run: which
\* branch it took (op; "text" when the write of the text run raised), the control
\* word or symbol and its parameter, where the control began (ctl, after the
\* backslash), the number of open groups, the effective destination at its start,
\* the number of events after the text run, the frame it popped
Observe(s, s1) ==
  LET c == Read1(s1.pos)
      ctl == After1(s1.pos)
      w == read_word(ctl)
      isword == c = "\\" /\ w.buf # << >>
  IN
  [op |-> IF s1.status = "error" THEN "text"
          ELSE IF c = "{" THEN "open"
          ELSE IF c = "}" THEN "close"
          ELSE IF c = "" THEN "eof"
          ELSE IF isword THEN "word" ELSE "symbol",
   word |-> IF c # "\\" THEN "" ELSE IF isword THEN Join(w.buf) ELSE Read1(w.pos),
   param |-> IF isword /\ Join(w.buf) \notin DOMAIN ESCAPE
             THEN read_number(w.pos, NoneV).val ELSE NoneV,
   ctl |-> IF c = "\\" THEN ctl ELSE 0,
   start |-> s.pos,
   depth |-> Len(s.group) - 1,
   sink |-> Dest(s),
   nev |-> Len(s1.events),
   popped |-> IF c = "}" /\ s.group # << >> THEN Top(s) ELSE NoFrame]

NoHist ==
  [op |-> "init", word |-> "", param |-> NoneV, ctl |-> 0, start |-> 0, depth |-> 0,
   sink |-> ROOT, nev |-> 0, popped |-> NoFrame]

\* Parser.__init__ on the file whose bytes are bytes
InitOn(bytes) ==
  /\ input = bytes
  /\ pos = 0
  /\ group = GroupRoot
  /\ dests = <<NewObj("RootDest", NoTarget, "", << >>),
               NewObj("Output", NoTarget, "", << >>),
               NewObj("NullDevice", NoTarget, "", << >>)>>
  /\ fonts = EmptyMap
  /\ colors = << >>
  /\ info = EmptyMap
  /\ numbering = 0
  /\ charset = NoneV
  /\ deff = NoneV
  /\ rtf_version = 1
  /\ events = << >>
  /\ status = "running"
  /\ err = ""
  /\ hist = NoHist

\* the parser's fields become those of r
Commit(r) ==
  /\ pos' = r.pos
  /\ group' = r.group
  /\ dests' = r.dests
  /\ fonts' = r.fonts
  /\ colors' = r.colors
  /\ info' = r.info
  /\ numbering' = r.numbering
  /\ charset' = r.charset
  /\ deff' = r.deff
  /\ rtf_version' = r.rtf_version
  /\ events' = r.events
  /\ status' = r.status
  /\ err' = r.err
  /\ UNCHANGED input

\* one iteration of the loop of Parser.parse: the text run and its write, then
\* the byte read after it
Iteration(host) ==
  \E s1 \in {WriteRun(St)} :
    \E r \in {AfterRun(s1, host)} :
      /\ Commit(r)
      /\ hist' = Observe(St, s1)

\* the process code page of a Windows host, "" for a host without the 'ansi' codec
Hosts == {"", "cp1252"}

\* an iteration whose text run is followed by a backslash: read_control
ReadControl ==
  /\ status = "running"
  /\ Dispatch(St) = "\\"
  /\ \E host \in Hosts : Iteration(host)

\* an iteration whose text run is followed by an opening brace: Group.open
OpenGroup ==
  /\ status = "running"
  /\ Dispatch(St) = "{"
  /\ Iteration("")

\* an iteration whose text run is followed by a closing brace: Group.close
CloseGroup ==
  /\ status = "running"
  /\ Dispatch(St) = "}"
  /\ Iteration("")

\* an iteration whose text run ends the input: end_doc
EndDoc ==
  /\ status = "running"
  /\ Dispatch(St) = ""
  /\ Iteration("")

Next == ReadControl \/ OpenGroup \/ CloseGroup \/ EndDoc

----------------------------------------------------------------------------
(* Inputs: every concatenation of at most n chunks of a list of chunks *)

RECURSIVE Flatten(_)
Flatten(chunks) == IF chunks = << >> THEN << >> ELSE Head(chunks) \o Flatten(Tail(chunks))

InputsFrom(chunks, n) ==
  {Flatten(c) : c \in UNION {[1 .. k -> Range(chunks)] : k \in 0 .. n}}

Ctl(letters) == <<"\\">> \o letters

\* groups and destinations
MaxChunks == 4

Chunks ==
  << <<"{">>, <<"}">>, <<"x">>,
     Ctl(<<"r","t","f","1"," ">>),
     Ctl(<<"p","a","r"," ">>),
     Ctl(<<"p","a","g","e"," ">>),
     Ctl(<<"f","o","n","t","t","b","l"," ">>),
     Ctl(<<"t","i","t","l","e"," ">>),
     Ctl(<<"s","t","y","l","e","s","h","e","e","t"," ">>),
     Ctl(<<"*","\\","f","o","o"," ">>),
     Ctl(<<"a","n","s","i"," ">>) >>

Init == \E bytes \in InputsFrom(Chunks, MaxChunks) : InitOn(bytes)

Spec == Init /\ [][Next]_vars

\* properties inside groups
MaxPropChunks == 4

PropChunks ==
  << <<"{">>, <<"}">>,
     Ctl(<<"b"," ">>),
     Ctl(<<"b","0"," ">>),
     Ctl(<<"f","s","2","4"," ">>),
     Ctl(<<"q","c"," ">>),
     Ctl(<<"p","a","r","d"," ">>),
     Ctl(<<"p","l","a","i","n"," ">>) >>

InitProps == \E bytes \in InputsFrom(PropChunks, MaxPropChunks) : InitOn(bytes)

SpecProps == InitProps /\ [][Next]_vars

\* what follows a control word; every input starts with \rtf1 so that text is output
RTF1 == Ctl(<<"r","t","f","1"," ">>)

MaxLexChunks == 4

LexChunks ==
  << <<"{">>, <<"}">>, <<"x">>, <<" ">>, <<"\t">>,
     Ctl(<<"b">>),
     Ctl(<<"f","s","2">>),
     Ctl(<<"u","c","2">>),
     Ctl(<<"u","6","5">>),
     Ctl(<<"'","e","9">>) >>

InitLex == \E bytes \in InputsFrom(LexChunks, MaxLexChunks) : InitOn(RTF1 \o bytes)

SpecLex == InitLex /\ [][Next]_vars

\* surrogate pairs
MaxUniChunks == 4

UniChunks ==
  << <<"{">>, <<"}">>, <<"?">>, <<" ">>,
     Ctl(<<"u","6","5">>),
     Ctl(<<"u","-","1","0","1","7","9">>),
     Ctl(<<"u","-","8","6","7","1">>),
     Ctl(<<"u","5","5","3","5","7">>),
     Ctl(<<"u","5","6","8","3","2">>) >>

InitUni == \E bytes \in InputsFrom(UniChunks, MaxUniChunks) : InitOn(RTF1 \o bytes)

SpecUni == InitUni /\ [][Next]_vars

\* hex escapes and the font table
MaxHexChunks == 4

HexChunks ==
  << <<"{">>, <<"}">>,
     Ctl(<<"'","e","9">>),
     Ctl(<<"a","n","s","i","c","p","g","1","2","5","2"," ">>),
     Ctl(<<"d","e","f","f","0"," ">>),
     Ctl(<<"f","0"," ">>),
     Ctl(<<"f","1"," ">>),
     <<"{">> \o Ctl(<<"f","o","n","t","t","b","l">>) \o Ctl(<<"f","0">>) \o Ctl(<<"f","n","i","l">>)
       \o Ctl(<<"f","c","h","a","r","s","e","t","1","6","1"," ","T",";","}">>),
     <<"{">> \o Ctl(<<"f","o","n","t","t","b","l">>) \o Ctl(<<"f","0">>)
       \o Ctl(<<"f","n","i","l"," ","T",";","}">>) >>

InitHex == \E bytes \in InputsFrom(HexChunks, MaxHexChunks) : InitOn(RTF1 \o bytes)

SpecHex == InitHex /\ [][Next]_vars

----------------------------------------------------------------------------
(* The claims. hist describes the iteration that led to the current state. *)

HasEndDoc == \E i \in DOMAIN events : events[i].ev = "end_doc"

\* d is the own destination of a group that is still open
IsOwn(d) == \E i \in DOMAIN group : group[i].own_dest = d

\* C1: every destination object that was installed as a group's own destination
\* receives close() exactly once, at the pop of the group that installed it:
\* never twice; once it is no open group's own destination it has been closed;
\* and when the parse ends it has been closed, unless the root group, which no
\* brace pops, holds it. (The objects are those the parse created; the root,
\* the output and the null device precede it.)
C1_ClosedExactlyOnce ==
  \A d \in (NULL_DEVICE + 1) .. Len(dests) :
    /\ dests[d].closes <= 1
    /\ (dests[d].installs > 0 /\ status = "done" /\ group[1].own_dest # d)
         => dests[d].closes = 1
    /\ (dests[d].installs > 0 /\ status = "running" /\ ~IsOwn(d)) => dests[d].closes = 1

\* C2: a closing brace read while no group opened by a brace is open fails the
\* parse; no end_doc follows it, and the current group is never undefined
C2_UnmatchedCloseFails ==
  /\ group # << >>
  /\ (hist.op = "close" /\ hist.depth = 0) => status = "error"
  /\ HasEndDoc => group # << >>

\* C3: EOF while a group opened by a brace is still open fails the parse and
\* emits no end_doc; end_doc is emitted only at EOF with no group open
C3_EofInsideGroupFails ==
  /\ (hist.op = "eof" /\ hist.depth > 0) => (status = "error" /\ ~HasEndDoc)
  /\ HasEndDoc => (hist.op = "eof" /\ hist.depth = 0)

C5_EffectiveDest ==
  /\ group # << >> => Dest(St) # 0
  /\ (hist.op = "close" /\ hist.depth > 0 /\ status = "running")
       => Dest(St) = hist.popped.dest_at_open
  /\ (status = "running" /\ TextRun(pos).text # << >>) => Dest(St) # 0

\* the iteration delivered par() or page_break() to the effective destination
DeliveredBreak ==
  \/ hist.op = "word" /\ hist.word \in {"par", "page"} /\ hist.param = NoneV
  \/ hist.op = "symbol" /\ hist.word \in {"\r", "\n"}

\* C6: while the effective destination is the NullDevice, a write, a par() and
\* a page_break() delivered to it neither fail the parse nor produce an event
C6_NullDeviceAccepts ==
  hist.sink = NULL_DEVICE =>
    /\ hist.op # "text"
    /\ hist.nev = Len(events) \/ hist.op = "eof"
    /\ DeliveredBreak => status # "error"

Letters == Range(Lower) \cup Range(Upper)

\* the first position from p on whose byte is not in set
RECURSIVE LexWhile(_, _)
LexWhile(p, set) == IF Read1(p) \in set THEN LexWhile(p + 1, set) ELSE p

\* where the control word whose letters start at p ends: after its letters and
\* its optional signed parameter
LexWordEnd(p) ==
  IF Read1(LexWhile(p, Letters)) \in Range(Digit) \cup {"-"}
  THEN LexWhile(LexWhile(p, Letters) + 1, Range(Digit))
  ELSE LexWhile(p, Letters)

\* and after its terminator, one space if there is one
LexTermEnd(p) == IF Read1(LexWordEnd(p)) = " " THEN LexWordEnd(p) + 1 ELSE LexWordEnd(p)

\* C7: after a control word (other than \u, which reads on) that is followed by
\* a byte, the reader stands right after the word and its parameter, or one byte
\* further if that byte is a space; no other byte is consumed with the word
C7_OnlySpaceTerminates ==
  (/\ hist.op = "word"
   /\ hist.word # "u"
   /\ status = "running"
   /\ LexWordEnd(hist.ctl) < Len(input))
    => pos = LexTermEnd(hist.ctl)

\* where skipping k replacement units from p ends: a unit is a literal byte, a
\* \'hh escape, or a control word with its parameter and terminating space (any
\* other control symbol counts as one unit); a brace or the end of input ends it
RECURSIVE SpecSkip(_, _)
SpecSkip(p, k) ==
  IF k <= 0 \/ Read1(p) \in {"", "{", "}"} THEN p
  ELSE IF Read1(p) # "\\" THEN SpecSkip(p + 1, k - 1)
  ELSE IF Read1(p + 1) \in Letters THEN SpecSkip(LexTermEnd(p + 1), k - 1)
  ELSE IF Read1(p + 1) = "'" THEN SpecSkip(IF p + 4 > Len(input) THEN Len(input) ELSE p + 4, k - 1)
  ELSE SpecSkip(IF p + 2 > Len(input) THEN Len(input) ELSE p + 2, k - 1)

\* C8: after \uN that is no high surrogate, with uc = k, the reader stands after
\* exactly k replacement units from the end of \uN, or at the brace that ended
\* the skipping early (where the units end before the end of the input)
C8_SkipsUcUnits ==
  (/\ hist.op = "word"
   /\ hist.word = "u"
   /\ status = "running"
   /\ hist.param.t = "int"
   /\ Unsigned(hist.param) \notin HIGH_SURROGATES
   /\ SpecSkip(LexTermEnd(hist.ctl), Uc(St)) < Len(input))
    => pos = SpecSkip(LexTermEnd(hist.ctl), Uc(St))

\* the byte a \'hh escape at hist.ctl gives
C9Byte == HexValue(Peek(hist.ctl + 1, 2))

\* the iteration wrote exactly the character that encoding makes of C9Byte
C9Wrote(encoding) ==
  /\ status # "error"
  /\ Len(events) = hist.nev + 1
  /\ events[Len(events)] = Ev("write", <<DecodeByte(encoding, C9Byte, "").ch>>, << >>, 0)

\* C9: a \'hh escape read while the current font index names no registered font
\* is decoded with the document's charset and written, without failing; when
\* the font is registered and has an fcharset, that fcharset's encoding is used
C9_HexDecoding ==
  (/\ hist.op = "symbol"
   /\ hist.word = "'"
   /\ hist.sink = OUTPUT
   /\ C9Byte >= 0
   /\ charset.t = "str")
    => IF FontKey(St) \notin DOMAIN fonts THEN C9Wrote(charset)
       ELSE (/\ fonts[FontKey(St)].charset.t = "int"
             /\ fonts[FontKey(St)].charset.n \in DOMAIN CHARSET_TABLE \ {0, 1, 2, 255})
              => C9Wrote(CHARSET_TABLE[fonts[FontKey(St)].charset.n])

\* the number whose text starts at p, if one does
HasNumber(p) == Read1(p) \in Range(Digit) \/ (Read1(p) = "-" /\ Read1(p + 1) \in Range(Digit))

NumberAt(p) ==
  IF Read1(p) = "-"
  THEN -DigitsValue(SubSeq(input, p + 2, LexWhile(p + 1, Range(Digit))))
  ELSE DigitsValue(SubSeq(input, p + 1, LexWhile(p, Range(Digit))))

\* the 16-bit unit a parameter denotes
Unit16(n) == IF n < 0 THEN n + 65536 ELSE n

\* the input at q continues with \u and a parameter that is a low surrogate
ContinuesWithLow(q) ==
  /\ Read1(q) = "\\"
  /\ Read1(q + 1) = "u"
  /\ HasNumber(q + 2)
  /\ Unit16(NumberAt(q + 2)) \in LOW_SURROGATES

\* the code point of the pair high, low
Combined(high, low) == 65536 + (Unit16(high) - 55296) * 1024 + (Unit16(low) - 56320)

\* where the replacement units of the \uN of this iteration end
C10After == SpecSkip(LexTermEnd(hist.ctl), Uc(St))

\* C10: \uN with N a high surrogate, read while the output is the destination:
\* if the input after its replacement units continues with \u and a low
\* surrogate, exactly one write is made, of the combined code point; if it does
\* not, the parse fails and nothing is written
C10_SurrogatePair ==
  (/\ hist.op = "word"
   /\ hist.word = "u"
   /\ hist.sink = OUTPUT
   /\ hist.param.t = "int"
   /\ Unsigned(hist.param) \in HIGH_SURROGATES)
    => IF ContinuesWithLow(C10After)
       THEN /\ status # "error"
            /\ Len(events) = hist.nev + 1
            /\ events[Len(events)] =
                 Ev("write", <<Combined(hist.param.n, NumberAt(C10After + 2))>>, << >>, 0)
       ELSE status = "error" /\ Len(events) = hist.nev

----------------------------------------------------------------------------
(* Whole documents: text, paragraphs, groups and an ignored destination *)

MaxDocChunks == 4

DocChunks ==
  << <<"{">>, <<"}">>, <<"x">>,
     Ctl(<<"r","t","f","1"," ">>),
     Ctl(<<"p","a","r"," ">>),
     Ctl(<<"*","\\","f","o","o"," ">>) >>

InitDoc == \E bytes \in InputsFrom(DocChunks, MaxDocChunks) : InitOn(bytes)

SpecDoc == InitDoc /\ [][Next]_vars

EndDocs == {i \in DOMAIN events : events[i].ev = "end_doc"}

\* what C11 says of a state: at most one end_doc, and it is the last event;
\* end_doc has been emitted exactly when the loop reached EOF, which it does
\* only without an error
C11State ==
  /\ Cardinality(EndDocs) <= 1
  /\ EndDocs \subseteq {Len(events)}
  /\ HasEndDoc <=> hist.op = "eof"
  /\ hist.op = "eof" <=> status = "done"

\* C11: end_doc is emitted at most once, exactly when the main loop reaches EOF
\* without an error; an iteration only appends to the events the Output has
\* received, and after end_doc or after an error no event is emitted any more
C11_EndDocOnceAndLast ==
  [][/\ C11State'
     /\ Len(events') >= Len(events)
     /\ SubSeq(events', 1, Len(events)) = events
     /\ status # "running" => events' = events]_vars

\* the parse returned after the Output had received other events
C11_DoneAfterEvents == status = "done" /\ Len(events) >= 2

----------------------------------------------------------------------------
(* The accessors of Handler, on the parser state s *)

FalseV == [t |-> "bool", n |-> 0, s |-> ""]

\* bool(v) of a Python value
Truthy(v) == (v.t \in {"bool", "int"} /\ v.n # 0) \/ (v.t = "str" /\ v.s # "")

\* Handler.bold
bold(s) == Get(Prop(s), "b", FalseV)

\* Handler.italic
italic(s) == Get(Prop(s), "i", FalseV)

\* Handler.underline
underline(s) == Get(Prop(s), "u", FalseV)

\* Handler.alignment
alignment(s) == Get(Prop(s), "q", StrV("l"))

\* Handler.font_size
font_size(s) == Get(Prop(s), "fs", NoneV)

----------------------------------------------------------------------------
(* Alignment words *)

MaxAlignChunks == 4

AlignChunks ==
  << <<"{">>, <<"}">>,
     Ctl(<<"q","l"," ">>),
     Ctl(<<"q","c"," ">>),
     Ctl(<<"q","r"," ">>),
     Ctl(<<"q","j"," ">>),
     Ctl(<<"q","d"," ">>),
     Ctl(<<"p","a","r","d"," ">>) >>

InitAlign == \E bytes \in InputsFrom(AlignChunks, MaxAlignChunks) : InitOn(bytes)

SpecAlign == InitAlign /\ [][Next]_vars

Alignments == {StrV("l"), StrV("c"), StrV("r"), StrV("j")}

\* C12: the property q, when the current map holds it, is one of l, c, r, j,
\* and the alignment accessor returns one of l, c, r, j
C12_AlignmentValues ==
  group # << >> =>
    /\ "q" \in DOMAIN Prop(St) => Prop(St)["q"] \in Alignments
    /\ alignment(St) \in Alignments

----------------------------------------------------------------------------
(* Text written through escapes: \'hh under a font's fcharset, and the     *)
(* escape words.  Every input starts with \rtf1 \ansicpg1252 \deff0 .      *)

MaxTextChunks == 3

\* a font table that registers font 0 with the given fcharset digits
FontTbl(fcharset) ==
  <<"{">> \o Ctl(<<"f","o","n","t","t","b","l">>) \o Ctl(<<"f","0">>) \o Ctl(<<"f","n","i","l">>)
    \o fcharset \o <<" ","T",";","}">>

TextChunks ==
  << FontTbl(<< >>),
     FontTbl(Ctl(<<"f","c","h","a","r","s","e","t","1">>)),
     FontTbl(Ctl(<<"f","c","h","a","r","s","e","t","3">>)),
     FontTbl(Ctl(<<"f","c","h","a","r","s","e","t","5">>)),
     FontTbl(Ctl(<<"f","c","h","a","r","s","e","t","1","6","1">>)),
     FontTbl(Ctl(<<"f","c","h","a","r","s","e","t","2","0","4">>)),
     Ctl(<<"'","e","9">>),
     Ctl(<<"l","i","n","e"," ">>),
     Ctl(<<"t","a","b"," ">>),
     Ctl(<<"e","m","d","a","s","h"," ">>),
     Ctl(<<"e","n","d","a","s","h"," ">>),
     Ctl(<<"l","q","u","o","t","e"," ">>),
     Ctl(<<"r","q","u","o","t","e"," ">>),
     Ctl(<<"l","d","b","l","q","u","o","t","e"," ">>),
     Ctl(<<"r","d","b","l","q","u","o","t","e"," ">>),
     Ctl(<<"b","u","l","l","e","t"," ">>) >>

InitText ==
  \E bytes \in InputsFrom(TextChunks, MaxTextChunks) :
    InitOn(RTF1 \o Ctl(<<"a","n","s","i","c","p","g","1","2","5","2"," ">>)
                \o Ctl(<<"d","e","f","f","0"," ">>) \o bytes)

SpecText == InitText /\ [][Next]_vars

\* the fcharset values the table lists
ListedCharsets == {0, 2, 77, 128, 129, 130, 134, 136, 161, 162, 163, 177, 178, 186, 204, 222, 238, 254, 255}

\* the iteration read \'hh while the output was the destination and the
\* current font was registered
C13Case ==
  /\ hist.op = "symbol"
  /\ hist.word = "'"
  /\ hist.sink = OUTPUT
  /\ C9Byte >= 0
  /\ charset.t = "str"
  /\ FontKey(St) \in DOMAIN fonts

\* the fcharset of the current font
C13Charset == fonts[FontKey(St)].charset

\* C13: for \'hh under a font with fcharset N, the encoding is the document's
\* when N is absent, 1 or 3, the table's when N is listed (checked where the
\* codec does not depend on the host), and the escape fails for every other N
C13_CharsetResolution ==
  C13Case =>
    IF C13Charset.t = "None" \/ C13Charset.n \in {1, 3} THEN C9Wrote(charset)
    ELSE IF C13Charset.n \in ListedCharsets
    THEN C13Charset.n \notin {0, 2, 255} => C9Wrote(CHARSET_TABLE[C13Charset.n])
    ELSE status = "error" /\ Len(events) = hist.nev

\* the literal each escape word stands for
EscapeLiteral ==
  [line |-> 10, tab |-> 9, emdash |-> 8212, endash |-> 8211, lquote |-> 8216,
   rquote |-> 8217, ldblquote |-> 8220, rdblquote |-> 8221, bullet |-> 8226]

\* C14: an escape word read while the output is the destination makes exactly
\* one write, of its literal, consumes its terminator and changes no property
\* (the group stack stays as it was)
C14_EscapeLiterals ==
  [][(/\ hist'.op = "word"
      /\ hist'.word \in DOMAIN EscapeLiteral
      /\ hist'.sink = OUTPUT)
       => /\ status' = "running"
          /\ Len(events') = hist'.nev + 1
          /\ events'[Len(events')] = Ev("write", <<EscapeLiteral[hist'.word]>>, << >>, 0)
          /\ pos' = LexTermEnd(hist'.ctl)
          /\ group' = group]_vars

----------------------------------------------------------------------------
(* Fields; every input starts with \rtf1 *)

MaxFieldChunks == 4

FieldChunks ==
  << <<"{","\\","f","i","e","l","d">>,
     <<"{","\\","f","l","d","i","n","s","t"," ","H","Y","P","E","R","L","I","N","K"," ","\"","a","\"","}">>,
     <<"{","\\","f","l","d","i","n","s","t"," ","H","Y","P","E","R","L","I","N","K","}">>,
     <<"{","\\","f","l","d","i","n","s","t"," ","H","Y","P","E","R","L","I","N","K","S"," ","a","}">>,
     <<"{","\\","f","l","d","i","n","s","t"," "," ","H","Y","P","E","R","L","I","N","K"," ","a"," ","b","}">>,
     <<"{","\\","f","l","d","r","s","l","t"," ","x","}">>,
     <<"{","\\","f","l","d","r","s","l","t"," ","{","\\","b"," ","y","}","z","}">>,
     <<"}">> >>

InitField == \E bytes \in InputsFrom(FieldChunks, MaxFieldChunks) : InitOn(RTF1 \o bytes)

SpecField == InitField /\ [][Next]_vars

\* the last iteration closed a group whose own destination is a Field
C15Case ==
  /\ hist.op = "close"
  /\ hist.popped.own_dest # 0
  /\ dests[hist.popped.own_dest].kind = "Field"

C15Field == dests[hist.popped.own_dest]

\* the text written to the \fldinst and to the \fldrslt sub-destination
C15Instruction == dests[C15Field.attrs["set_instruction"]].content

C15Result == dests[C15Field.attrs["set_result"]].content

StartsWith(text, prefix) ==
  Len(text) >= Len(prefix) /\ SubSeq(text, 1, Len(prefix)) = prefix

\* text without one leading and without one trailing double quote
Unquote(text) ==
  LET lead == IF text # << >> /\ text[1] = 34 THEN 1 ELSE 0
      rest == SubSeq(text, 1 + lead, Len(text))
      trail == IF rest # << >> /\ rest[Len(rest)] = 34 THEN 1 ELSE 0
  IN SubSeq(rest, 1, Len(rest) - trail)

C15Emitted(url) ==
  /\ status = "running"
  /\ Len(events) = hist.nev + 1
  /\ events[Len(events)] = Ev("hyperlink", C15Result, url, 0)

C15Failed == status = "error" /\ Len(events) = hist.nev

\* C15 as stated: when a \field group closes, an instruction text that starts
\* with HYPERLINK gives exactly one hyperlink(result, url) event, result being the
\* text written in \fldrslt and url the first argument without its surrounding
\* double quotes, both sub-destinations having been closed before; any other
\* instruction fails the parse and emits nothing.
C15_StartsWithHyperlink ==
  C15Case =>
    IF StartsWith(C15Instruction, HYPERLINK)
    THEN /\ Len(Split(C15Instruction)) >= 2
         /\ C15Emitted(Unquote(Split(C15Instruction)[2]))
         /\ dests[C15Field.attrs["set_instruction"]].closes >= 1
         /\ dests[C15Field.attrs["set_result"]].closes >= 1
    ELSE C15Failed

\* C15, amended: when a \field group closes, the Field holds the text written to
\* each of its sub-destinations; if the first whitespace-separated word of the
\* instruction is exactly HYPERLINK and a second word follows, exactly one
\* hyperlink(result, url) event is emitted, url being that second word without
\* one leading and one trailing double quote, and the \fldinst sub-destination
\* has been closed before; in every other case (another first word, no word at
\* all, HYPERLINK without an argument) the parse fails and emits nothing.
C15_HyperlinkField ==
  C15Case =>
    /\ C15Field.attrs["instruction"] = C15Instruction
    /\ C15Field.attrs["result"] = C15Result
    /\ IF /\ Len(Split(C15Instruction)) >= 2
          /\ Split(C15Instruction)[1] = HYPERLINK
       THEN /\ C15Emitted(Unquote(Split(C15Instruction)[2]))
            /\ dests[C15Field.attrs["set_instruction"]].closes >= 1
       ELSE C15Failed

\* a field with a quoted address and a result text has emitted its hyperlink
C15_QuotedLinkEmitted ==
  /\ C15Case
  /\ status = "running"
  /\ 34 \in Range(C15Instruction)
  /\ events[Len(events)] = Ev("hyperlink", <<120>>, <<97>>, 0)

----------------------------------------------------------------------------
(* Negative \u parameters, on the inputs of SpecUni *)

\* the last iteration read \uN, N in -32768 .. -1, while the output was the
\* destination
C16Case ==
  /\ hist.op = "word"
  /\ hist.word = "u"
  /\ hist.sink = OUTPUT
  /\ hist.param.t = "int"
  /\ hist.param.n \in (-32768) .. (-1)

C16Wrote(ch) ==
  /\ Len(events) = hist.nev + 1
  /\ events[Len(events)] = Ev("write", <<ch>>, << >>, 0)

\* C16 as stated: for every \uN with N in -32768 .. -1 the code point written
\* to the current destination is N + 0x10000
C16_NegativeWritesUnit == C16Case => C16Wrote(hist.param.n + 65536)

\* C16, amended: for every \uN with N in -32768 .. -1 whose unit N + 0x10000 is
\* not a high surrogate (not in 0xD800 .. 0xDBFF), the code point written to the
\* current destination is N + 0x10000; a negative N that denotes a high
\* surrogate is not written by itself but read as the first half of a pair
C16_NegativeNonHighWritesUnit ==
  (C16Case /\ hist.param.n + 65536 \notin HIGH_SURROGATES) => C16Wrote(hist.param.n + 65536)

\* \u-8671 was read and the code point 56865 written
C16_NegativeWritten ==
  /\ C16Case
  /\ hist.param.n = -8671
  /\ C16Wrote(56865)

----------------------------------------------------------------------------
(* Character and paragraph formatting; every input starts with \rtf1 *)

MaxFmtChunks == 3

FmtChunks ==
  << <<"{">>, <<"}">>,
     Ctl(<<"p","l","a","i","n"," ">>),
     Ctl(<<"p","a","r","d"," ">>),
     Ctl(<<"d","e","f","f","0"," ">>),
     Ctl(<<"f","1"," ">>),
     Ctl(<<"b"," ">>),
     Ctl(<<"i","0"," ">>),
     Ctl(<<"u","l"," ">>),
     Ctl(<<"u","l","d","a","s","h"," ">>),
     Ctl(<<"u","l","n","o","n","e"," ">>),
     Ctl(<<"u","l","0"," ">>),
     Ctl(<<"q","c"," ">>),
     Ctl(<<"p","n"," ">>) >>

InitFmt == \E bytes \in InputsFrom(FmtChunks, MaxFmtChunks) : InitOn(RTF1 \o bytes)

SpecFmt == InitFmt /\ [][Next]_vars

\* the property map of the innermost open group
TopProp == group[Len(group)].prop

\* the step reads the control word w, without a parameter, in an open group
Executes(w) ==
  /\ group # << >>
  /\ hist'.op = "word"
  /\ hist'.word = w
  /\ hist'.param.t = "None"

\* the character-formatting keys, as the claim lists them
C17Keys ==
  {"animtext", "charscalex", "dn", "embo", "impr", "sub", "expnd", "expndtw", "kerning",
   "f", "fs", "strikedl", "up", "super", "cf", "cb", "rtlch", "ltrch", "cs", "cchs", "lang",
   "b", "caps", "deleted", "i", "outl", "scaps", "shad", "strike", "ul", "v"}

\* q agrees with p on every key outside keys
SameOutside(p, q, keys) ==
  /\ DOMAIN q \ keys = DOMAIN p \ keys
  /\ \A k \in DOMAIN p \ keys : q[k] = p[k]

\* C17 as stated: right after \plain no character-formatting key, f included, is
\* present in the current property map, the active font index (f, or deff when f
\* is absent) equals deff, and the keys outside that set are unchanged
C17_PlainClearsAll ==
  [][Executes("plain") =>
       /\ status' = "running"
       /\ Len(group') = Len(group)
       /\ DOMAIN TopProp' \cap C17Keys = {}
       /\ Get(TopProp', "f", deff') = deff'
       /\ SameOutside(TopProp, TopProp', C17Keys)]_vars

\* C17, amended: right after \plain no character-formatting key other than f is
\* present in the current property map, f is present and holds deff (None when
\* no \deff was read), and the keys outside that set are unchanged
C17_PlainSetsDefaultFont ==
  [][Executes("plain") =>
       /\ status' = "running"
       /\ Len(group') = Len(group)
       /\ DOMAIN TopProp' \cap C17Keys = {"f"}
       /\ TopProp'["f"] = deff'
       /\ deff' = deff
       /\ SameOutside(TopProp, TopProp', C17Keys)]_vars

\* \plain was read while the map held a character key and a paragraph key
C17_PlainAfterFormatting ==
  /\ hist.op = "word"
  /\ hist.word = "plain"
  /\ status = "running"
  /\ deff = IntV(0)
  /\ TopProp = [f |-> IntV(0), q |-> StrV("c")]

\* the step reads \pard immediately after a \pard that the previous step read
SecondPard ==
  /\ Executes("pard")
  /\ hist.op = "word"
  /\ hist.word = "pard"
  /\ hist.param.t = "None"
  /\ hist'.ctl = pos + 1

\* C18: right after \pard no paragraph-formatting key is present in the current
\* property map, no Numbering is active and the keys outside the paragraph set
\* are unchanged; a \pard that directly follows a \pard changes nothing but the
\* reader position and emits no event
C18_PardResetsParagraph ==
  [][/\ Executes("pard") =>
          /\ status' = "running"
          /\ Len(group') = Len(group)
          /\ DOMAIN TopProp' \cap PARFMT = {}
          /\ numbering' = 0
          /\ SameOutside(TopProp, TopProp', PARFMT)
     /\ SecondPard =>
          /\ group' = group
          /\ events' = events
          /\ <<dests, fonts, colors, info, numbering, charset, deff, rtf_version, status, err>>' =
               <<dests, fonts, colors, info, numbering, charset, deff, rtf_version, status, err>>]_vars

\* a second \pard was read after a first one had switched numbering off
C18_SecondPardRead ==
  /\ hist.op = "word"
  /\ hist.word = "pard"
  /\ status = "running"
  /\ pos = Len(input)
  /\ Len(input) >= 12
  /\ SubSeq(input, Len(input) - 11, Len(input)) =
       Ctl(<<"p","a","r","d"," ">>) \o Ctl(<<"p","a","r","d"," ">>)
  /\ \E i \in DOMAIN events : events[i].ev = "numbering_off"

\* C19: the underline accessor is true exactly when the current property map
\* holds ul
C19_UnderlineFollowsUl ==
  group # << >> => (Truthy(underline(St)) <=> "ul" \in DOMAIN Prop(St))

\* the bold and the italic accessor are true exactly when the map holds b, i
AccessorsFollowToggles ==
  group # << >> =>
    /\ Truthy(bold(St)) <=> "b" \in DOMAIN Prop(St)
    /\ Truthy(italic(St)) <=> "i" \in DOMAIN Prop(St)

----------------------------------------------------------------------------
(* The reader at the end of the input, on the inputs of SpecLex *)

\* C20: a read-while loop that meets the end of the input does not move the
\* reader backwards: after a control word the reader stands at or after the end
\* of the word and its parameter, also when the word is the last token of the
\* input, so that no byte of the word is read again
C20_NoUnreadAtEof ==
  (hist.op = "word" /\ status = "running") => pos >= LexWordEnd(hist.ctl)

----------------------------------------------------------------------------
(* The colour table; every input starts with \rtf1 {\colortbl *)

MaxColorChunks == 5

ColorTblOpen == RTF1 \o <<"{">> \o Ctl(<<"c","o","l","o","r","t","b","l">>)

ColorChunks ==
  << <<";">>, <<"}">>,
     Ctl(<<"r","e","d","1">>),
     Ctl(<<"g","r","e","e","n","2">>),
     Ctl(<<"b","l","u","e","3">>) >>

InitColor == \E bytes \in InputsFrom(ColorChunks, MaxColorChunks) : InitOn(ColorTblOpen \o bytes)

SpecColor == InitColor /\ [][Next]_vars

NoColor == [red |-> IntV(0), green |-> IntV(0), blue |-> IntV(0)]

\* the component a control word of the table gives, "" for any other word
Component(p) ==
  LET word == Join(SubSeq(input, p + 1, LexWhile(p, Letters))) IN
  IF word \in {"red", "green", "blue"} /\ HasNumber(LexWhile(p, Letters)) THEN word ELSE ""

\* the colours the bytes from p up to the reader position define, read as the
\* claim reads them: a control word red, green or blue gives a component of the
\* pending colour, a semicolon appends the pending colour and starts a new one
\* with every component 0, the closing brace ends the table
RECURSIVE TableColors(_, _, _)
TableColors(p, pending, table) ==
  IF p >= pos \/ Read1(p) = "}" THEN table
  ELSE IF Read1(p) = ";" THEN TableColors(p + 1, NoColor, Append(table, pending))
  ELSE IF Read1(p) = "\\"
  THEN TableColors(LexWordEnd(p + 1),
                   IF Component(p + 1) = "" THEN pending
                   ELSE [pending EXCEPT ![Component(p + 1)] =
                           IntV(NumberAt(LexWhile(p + 1, Letters)))],
                   table)
  ELSE TableColors(p + 1, pending, table)

\* C21: once the \colortbl word is read, the colour table holds one colour for
\* each semicolon read inside the table's group, in source order, each built
\* from the red, green and blue values given since the semicolon before it,
\* with 0 for a component not given since then
C21_ColorPerSemicolon ==
  (status # "error" /\ pos >= Len(ColorTblOpen))
    => colors = TableColors(Len(ColorTblOpen), NoColor, << >>)

----------------------------------------------------------------------------
(* Control words without a method of their own; every input starts with \rtf1 *)

MaxWordChunks == 3

WordChunks ==
  << <<"{">>, <<"}">>, <<"x">>,
     Ctl(<<"f","o","o"," ">>),
     Ctl(<<"f","o","o","-","3"," ">>),
     Ctl(<<"q","x"," ">>),
     Ctl(<<"u","l","x"," ">>),
     Ctl(<<"p","n"," ">>),
     Ctl(<<"p","n","d","e","c"," ">>),
     Ctl(<<"p","n","f","o","o","5"," ">>),
     Ctl(<<"p","a","r","d"," ">>) >>

InitWord == \E bytes \in InputsFrom(WordChunks, MaxWordChunks) : InitOn(RTF1 \o bytes)

SpecWord == InitWord /\ [][Next]_vars

\* the letters of the control word the last iteration read
C22Letters == SubSeq(input, hist.ctl + 1, LexWhile(hist.ctl, Letters))

\* the last iteration read, in an open group, a control word that is neither a
\* named instruction nor handled by the reader itself (an escape word, \u)
C22Case ==
  /\ hist.op = "word"
  /\ hist.depth >= 0
  /\ hist.word \notin INSTRUCTIONS \cup DOMAIN ESCAPE \cup {"u"}

\* the word matches none of the dispatch rules
C22NoRule ==
  /\ hist.word \notin TOGGLE \cup NUMBERING_STYLES \cup UNSUPPORTED_DEST \cup DOMAIN CHARSETS
  /\ hist.word \notin FONT_FAMILIES \cup TEXT_INFO \cup DATE_INFO \cup IGNORE_WORDS
  /\ C22Letters[1] # "q"
  /\ ~StartsWith(C22Letters, <<"u", "l">>)
  /\ ~StartsWith(C22Letters, <<"p", "n">>)

\* C22: a control word that is not a named instruction never makes the parse
\* fail, whatever the state (no Numbering active, a word beginning with q, ul or
\* pn); a word that matches no dispatch rule is recorded in the current property
\* map under its own name, with its parameter, or true without one
C22_UnknownWordNeverFails ==
  C22Case =>
    /\ status # "error"
    /\ C22NoRule =>
         /\ hist.word \in DOMAIN TopProp
         /\ TopProp[hist.word] = IF hist.param.t = "None" THEN TrueV ELSE hist.param

----------------------------------------------------------------------------
(* Numbering events, on the inputs of SpecFmt *)

\* the numbering_on and numbering_off events among evs, in order
NumberingEvents(evs) == SelectSeq(evs, LAMBDA e : e.ev \in {"numbering_on", "numbering_off"})

\* on and off alternate, beginning with on, and each off names the Numbering of
\* the on before it
Alternates(nevs) ==
  \A i \in DOMAIN nevs :
    IF i % 2 = 1 THEN nevs[i].ev = "numbering_on"
    ELSE nevs[i].ev = "numbering_off" /\ nevs[i].num = nevs[i - 1].num

\* C23: in the events of a parse numbering_on and numbering_off alternate,
\* beginning with numbering_on; numbering_off(n) follows the numbering_on(n) of
\* the same Numbering; and the Numbering passed to numbering_on is the parser's
\* active numbering when the event is emitted
C23_NumberingAlternates ==
  [][/\ Alternates(NumberingEvents(events'))
     /\ \A i \in (Len(events) + 1) .. Len(events') :
          events'[i].ev = "numbering_on" => numbering' = events'[i].num]_vars

----------------------------------------------------------------------------
(* Termination: the loop of Parser.parse runs on until it breaks or raises; *)
(* every input starts with \rtf1                                            *)

MaxTermChunks == 2

TermChunks ==
  << <<"{">>, <<"}">>, <<"x">>, <<" ">>, <<"\\">>,
     Ctl(<<"b">>),
     Ctl(<<"f","s","2">>),
     Ctl(<<"u","c","2">>),
     Ctl(<<"u","6","5">>),
     Ctl(<<"u","-","1","0","1","7","9">>),
     Ctl(<<"u","-","8","6","7","1">>),
     Ctl(<<"'","e","9">>) >>

InitTerm == \E bytes \in InputsFrom(TermChunks, MaxTermChunks) : InitOn(RTF1 \o bytes)

\* the loop of Parser.parse goes on to its next iteration until it breaks or raises
SpecTerm == InitTerm /\ [][Next]_vars /\ WF_vars(Next)

\* C24: parse terminates on every input: every iteration that leaves the loop
\* running leaves the reader further on than it found it, although the lexer
\* seeks backwards, so the reader position never cycles, and the loop ends with
\* end_doc or with an error
C24_ParseTerminates ==
  /\ [][status' = "running" => pos' > pos]_vars
  /\ <>(status \in {"done", "error"})

\* a parse has ended after the reader was moved back at the end of the input:
\* the input ends with \b, whose letter was then read again as text
C24_EndedAfterSeekBack ==
  /\ status = "done"
  /\ Len(input) >= 2
  /\ SubSeq(input, Len(input) - 1, Len(input)) = Ctl(<<"b">>)
  /\ Len(events) >= 2
  /\ events[Len(events) - 1] = Ev("write", <<98>>, << >>, 0)

====
